---- MODULE Spec2Model ----
(***************************************************************************)
(* Model of StandardizedDiffuseAlbedoMaps.CameraCalibrationDatabase        *)
(* (src/Tools/GenerateSelfShadowedBumpMap/GeneratorForm.cs, lines 938 to   *)
(* 1410): the DatabasePath setter that loads the calibration files and     *)
(* builds the grid of GridNodes, the IsValid / HasErrors properties, and    *)
(* the methods PrepareCalibrationFor, IsPreparedFor, Calibrate and          *)
(* FindStartNode.                                                          *)
(*                                                                         *)
(* EV values are floats in the source; here they are fixed-point integers  *)
(* in thousandths of an EV (1 EV = 1000).                                  *)
(*                                                                         *)
(* Two smaller classes have a specification of their own:                  *)
(* AutomationForm.Results.SurfaceParameters (same file, lines 1445 to      *)
(* 1668) and Dictionary<T> (src/NuajAPI/API/Hashtable.inl, lines 163 to    *)
(* 281).                                                                   *)
(***************************************************************************)
EXTENDS Integers, Sequences, FiniteSets, TLC

VARIABLES
    disk,                       \* the *.xml files of the calibration directory on disk
    m_DatabasePath,             \* the directory given to the setter (NullPath = null)
    m_ErrorLog,                 \* sequence of log entries ("" = empty sequence)
    m_CameraClibrations,        \* the calibrations that loaded without error
    m_RootNode,                 \* id of the root GridNode, Null = null
    m_PreparedForISOSpeed,
    m_PreparedForShutterSpeed,
    m_PreparedForAperture,
    m_InterpolatedCalibration,  \* the 6 interpolated luminances, NullCalibration = null
    nodes,                      \* the heap of live GridNodes: id -> GridNode
    GridNodes,                  \* local of the setter: the unplaced nodes, in load order
    PlacedNodes,                \* local of the setter: the placed nodes, in placement order
    pc,                         \* "idle": no call in progress, "build": inside the while loop
    thrown,                     \* exception raised by the last finished call, "" = none
    returned,                   \* the last call: its name, arguments and return value
    locals,                     \* StartNode, Grid, tX, tY, tZ of the last run of
                                \* PrepareCalibrationFor on the current database
    preparedSinceLoad,          \* history: PrepareCalibrationFor returned normally
                                \* since the last call of the setter
    m_locked,                   \* SurfaceParameters.m_locked
    parameters,                 \* the Parameter objects of a SurfaceParameters, by field
    m_Size,                     \* Dictionary<T>: number of buckets
    m_ppTable,                  \* Dictionary<T>: bucket -> chain of keys, head first
    m_EntriesCount              \* Dictionary<T>: entry counter

\* The CameraCalibrationDatabase, but for the outcome of the last call
databaseVars == <<disk, m_DatabasePath, m_ErrorLog, m_CameraClibrations, m_RootNode,
                  m_PreparedForISOSpeed, m_PreparedForShutterSpeed, m_PreparedForAperture,
                  m_InterpolatedCalibration, nodes, GridNodes, PlacedNodes, pc,
                  locals, preparedSinceLoad>>

\* The SurfaceParameters of AutomationForm.Results
surfaceVars == <<m_locked, parameters>>

\* The Dictionary<T> of Hashtable.inl
dictionaryVars == <<m_Size, m_ppTable, m_EntriesCount>>

vars == <<databaseVars, thrown, returned, surfaceVars, dictionaryVars>>

-----------------------------------------------------------------------------
(* Bounds and input sets *)

MaxFiles == 3

REQUIRED_PROBES_COUNT == 6

FloatMaxValue == 2147483647

Null == 0

\* CameraCalibration m_InterpolatedCalibration = null
NullCalibration == <<>>

\* again: the call before it had the same name and arguments and returned normally
NoReturn == [op |-> "", args |-> <<>>, bool |-> FALSE, value |-> <<>>, again |-> FALSE]

NoLocals == [StartNode |-> Null, Grid |-> <<>>, tX |-> <<>>, tY |-> <<>>, tZ |-> 0]

IsoSpeeds == {100, 200}
ShutterSpeeds == {1, 2}
Apertures == {1, 2}
ProbeCounts == {REQUIRED_PROBES_COUNT - 1, REQUIRED_PROBES_COUNT}
Luminances == {1}

\* What CC.Load() reads from one calibration file
CalibrationFile ==
    { [m_ISOSpeed |-> i, m_ShutterSpeed |-> s, m_Aperture |-> a,
       m_Reflectances |-> [k \in 1..n |-> l]] :
        i \in IsoSpeeds, s \in ShutterSpeeds, a \in Apertures,
        n \in ProbeCounts, l \in Luminances }

FileLists == UNION { [1..n -> CalibrationFile] : n \in 0..MaxFiles }

NullPath == [IsNull |-> TRUE, Exists |-> FALSE, Files |-> <<>>]
MissingPath == [IsNull |-> FALSE, Exists |-> FALSE, Files |-> <<>>]
DirectoryInfo(files) == [IsNull |-> FALSE, Exists |-> TRUE, Files |-> files]

-----------------------------------------------------------------------------
(* GridNode *)

Abs(x) == IF x < 0 THEN -x ELSE x

\* Math.Log( 0 ) = -Infinity: a value below every finite EV
NegInfinity == -1000000000

\* log(n/d) / log(2) in thousandths, for the ratios n/d = 2^k and 3*2^k, and for n = 0
RECURSIVE Log2(_, _)
Log2(n, d) ==
    IF n <= 0 THEN NegInfinity
    ELSE IF n = d THEN 0
    ELSE IF n >= 2 * d THEN 1000 + Log2(n, 2 * d)
    ELSE IF 2 * n <= d THEN Log2(2 * n, d) - 1000
    ELSE IF 2 * n = 3 * d THEN 585
    ELSE 0

Convert2EV(_ISOSpeed, _ShutterSpeed, _Aperture) ==
    [ _EV_ISOSpeed     |-> Log2(_ISOSpeed, 100),
      _EV_ShutterSpeed |-> Log2(_ShutterSpeed, 1),
      _EV_Aperture     |-> -Log2(_Aperture, 1) ]

EmptyNeighbors == [i \in 0..1 |-> Null]

NewGridNode(_CameraCalibration) ==
    LET ev == Convert2EV(_CameraCalibration.m_ISOSpeed,
                         _CameraCalibration.m_ShutterSpeed,
                         _CameraCalibration.m_Aperture)
    IN  [ m_CameraCalibration |-> _CameraCalibration,
          m_EV_ISOSpeed       |-> ev._EV_ISOSpeed,
          m_EV_ShutterSpeed   |-> ev._EV_ShutterSpeed,
          m_EV_Aperture       |-> ev._EV_Aperture,
          m_NeighborX         |-> EmptyNeighbors,
          m_NeighborY         |-> EmptyNeighbors,
          m_NeighborZ         |-> EmptyNeighbors ]

\* -Infinity plus a finite value is -Infinity
EV(node) ==
    IF node.m_EV_ISOSpeed = NegInfinity \/ node.m_EV_ShutterSpeed = NegInfinity
      THEN NegInfinity
      ELSE node.m_EV_ISOSpeed + node.m_EV_ShutterSpeed + node.m_EV_Aperture

\* With an infinite EV the result is +Infinity or NaN, which is never below
\* float.MaxValue: FloatMaxValue stands for both
SqDistance(this, _Node) ==
    LET Delta_ISOSpeed     == _Node.m_EV_ISOSpeed - this.m_EV_ISOSpeed
        Delta_ShutterSpeed == _Node.m_EV_ShutterSpeed - this.m_EV_ShutterSpeed
        Delta_Aperture     == _Node.m_EV_Aperture - this.m_EV_Aperture
    IN  IF NegInfinity \in { _Node.m_EV_ISOSpeed, this.m_EV_ISOSpeed,
                             _Node.m_EV_ShutterSpeed, this.m_EV_ShutterSpeed }
          THEN FloatMaxValue
          ELSE Delta_ISOSpeed * Delta_ISOSpeed + Delta_ShutterSpeed * Delta_ShutterSpeed
                 + Delta_Aperture * Delta_Aperture

Axes == {"X", "Y", "Z"}

Neighbor(node, axis) ==
    CASE axis = "X" -> node.m_NeighborX
      [] axis = "Y" -> node.m_NeighborY
      [] axis = "Z" -> node.m_NeighborZ

AxisEV(node, axis) ==
    CASE axis = "X" -> node.m_EV_ISOSpeed
      [] axis = "Y" -> node.m_EV_ShutterSpeed
      [] axis = "Z" -> node.m_EV_Aperture

SetNeighbor(node, axis, i, v) ==
    CASE axis = "X" -> [node EXCEPT !.m_NeighborX[i] = v]
      [] axis = "Y" -> [node EXCEPT !.m_NeighborY[i] = v]
      [] axis = "Z" -> [node EXCEPT !.m_NeighborZ[i] = v]

-----------------------------------------------------------------------------
(* The per-file load loop of the DatabasePath setter *)

\* Mutant: the probe count is not checked
FileIsValid_Any(CC) == TRUE

FileIsValid(CC) == Len(CC.m_Reflectances) = REQUIRED_PROBES_COUNT

ProbesMessage == "Unexpected amount of reflectance probes in calibration file!"
EmptyMessage == "Database is empty: no valid file could be parsed..."
NeighborMessage == "Grid node already has a neighbor!"
PathMessage == "Provided database path doesn't exist!"
NullReferenceMessage == "NullReferenceException"

\* List.Remove: removes the first occurrence of x
RECURSIVE Remove(_, _)
Remove(list, x) ==
    IF list = <<>> THEN <<>>
    ELSE IF Head(list) = x THEN Tail(list)
    ELSE <<Head(list)>> \o Remove(Tail(list), x)

\* Mutant: the first node loaded stays the root
BetterRoot_FirstWins(ns, root, Node) == root = Null

\* Mutant: every valid node replaces the root, the last one loaded stays
BetterRoot_LastWins(ns, root, Node) == TRUE

BetterRoot(ns, root, Node) == root = Null \/ EV(Node) < EV(ns[root])

\* Mutant: the grid node is created and the root selected before the probe count
\* is checked
RECURSIVE LoadFiles_RootBeforeCheck(_, _, _)
LoadFiles_RootBeforeCheck(files, k, st) ==
    IF k > Len(files) THEN st
    ELSE LET CC   == files[k]
             Node == NewGridNode(CC)
             id   == Len(st.ns) + 1
             st2  == [st EXCEPT !.ns = Append(st.ns, Node),
                                !.root = IF BetterRoot(st.ns, st.root, Node) THEN id ELSE @]
         IN  IF ~FileIsValid(CC)
               THEN LoadFiles_RootBeforeCheck(files, k + 1,
                        [st2 EXCEPT !.log = Append(@, [File |-> k, Message |-> ProbesMessage])])
               ELSE LoadFiles_RootBeforeCheck(files, k + 1,
                        [st2 EXCEPT !.ccs = Append(@, CC), !.grid = Append(@, id)])

\* The foreach over CalibrationFiles from file k on; st holds the loop's variables
RECURSIVE LoadFiles(_, _, _)
LoadFiles(files, k, st) ==
    IF k > Len(files) THEN st
    ELSE LET CC == files[k] IN
         IF ~FileIsValid(CC)
           THEN LoadFiles(files, k + 1,
                    [st EXCEPT !.log = Append(@, [File |-> k, Message |-> ProbesMessage])])
           ELSE LET Node == NewGridNode(CC)
                    id   == Len(st.ns) + 1
                    ns2  == Append(st.ns, Node)
                IN  LoadFiles(files, k + 1,
                        [st EXCEPT !.ns = ns2,
                                   !.root = IF BetterRoot(st.ns, st.root, Node) THEN id ELSE @,
                                   !.ccs = Append(@, CC),
                                   !.grid = Append(@, id)])

-----------------------------------------------------------------------------
(* The grid construction loop of the DatabasePath setter *)

\* The two nested foreach loops: pair number k of the scan, best = pair found so far
RECURSIVE ScanPairs(_, _, _, _, _)
ScanPairs(ns, placed, unplaced, k, best) ==
    IF k > Len(placed) * Len(unplaced) THEN best
    ELSE LET NodePlaced   == placed[((k - 1) \div Len(unplaced)) + 1]
             NodeUnPlaced == unplaced[((k - 1) % Len(unplaced)) + 1]
             Sq           == SqDistance(ns[NodePlaced], ns[NodeUnPlaced])
         IN  ScanPairs(ns, placed, unplaced, k + 1,
                 IF Sq < best.BestPairSqDistance
                   THEN [BestPairSqDistance |-> Sq,
                         PairPlaced |-> NodePlaced, PairUnPlaced |-> NodeUnPlaced]
                   ELSE best)

BestPair(ns, placed, unplaced) ==
    ScanPairs(ns, placed, unplaced, 1,
        [BestPairSqDistance |-> FloatMaxValue, PairPlaced |-> Null, PairUnPlaced |-> Null])

\* The mutation: the comparisons are >= instead of >, ties go X over Y over Z
ChooseAxis_XFirst(DeltaX, DeltaY, DeltaZ) ==
    IF Abs(DeltaX) >= Abs(DeltaY)
      THEN (IF Abs(DeltaX) >= Abs(DeltaZ) THEN "X" ELSE "Z")
      ELSE (IF Abs(DeltaY) >= Abs(DeltaZ) THEN "Y" ELSE "Z")

\* The nested comparison of the three absolute deltas
ChooseAxis(DeltaX, DeltaY, DeltaZ) ==
    IF Abs(DeltaX) > Abs(DeltaY)
      THEN (IF Abs(DeltaX) > Abs(DeltaZ) THEN "X" ELSE "Z")
      ELSE (IF Abs(DeltaY) > Abs(DeltaZ) THEN "Y" ELSE "Z")

LeftRight(Delta) == IF Delta < 0 THEN 0 ELSE 1

\* Mutant: the occupied-slot check is missing
SlotOccupied_Never(AxisPlaced, lr) == FALSE

SlotOccupied(AxisPlaced, lr) == AxisPlaced[lr] # Null

\* Mutant: the back link is written in the same slot index as the forward link
StoreNeighbors_SameIndex(ns, p, u, axis, lr) ==
    [ns EXCEPT ![p] = SetNeighbor(@, axis, lr, u),
               ![u] = SetNeighbor(@, axis, lr, p)]

\* Mutant: only the new node's back link is written
StoreNeighbors_BackLinkOnly(ns, p, u, axis, lr) ==
    [ns EXCEPT ![u] = SetNeighbor(@, axis, 1 - lr, p)]

\* Mutant: both links are written in slot 1, the one FindStartNode follows
StoreNeighbors_BothNext(ns, p, u, axis, lr) ==
    [ns EXCEPT ![p] = SetNeighbor(@, axis, 1, u),
               ![u] = SetNeighbor(@, axis, 1, p)]

StoreNeighbors(ns, p, u, axis, lr) ==
    [ns EXCEPT ![p] = SetNeighbor(@, axis, lr, u),
               ![u] = SetNeighbor(@, axis, 1 - lr, p)]

\* What one iteration of the while loop decides
Placement(ns, placed, unplaced) ==
    LET best   == BestPair(ns, placed, unplaced)
        p      == best.PairPlaced
        u      == best.PairUnPlaced
        DeltaX == ns[p].m_EV_ISOSpeed - ns[u].m_EV_ISOSpeed
        DeltaY == ns[p].m_EV_ShutterSpeed - ns[u].m_EV_ShutterSpeed
        DeltaZ == ns[p].m_EV_Aperture - ns[u].m_EV_Aperture
        axis   == ChooseAxis(DeltaX, DeltaY, DeltaZ)
        delta  == CASE axis = "X" -> DeltaX [] axis = "Y" -> DeltaY [] axis = "Z" -> DeltaZ
    IN  IF p = Null
          THEN \* no pair was below float.MaxValue: PairPlaced is still null
               [PairPlaced |-> Null, PairUnPlaced |-> Null, Axis |-> "X", LeftRight |-> 0]
          ELSE [PairPlaced |-> p, PairUnPlaced |-> u, Axis |-> axis,
                LeftRight |-> LeftRight(delta)]

-----------------------------------------------------------------------------
(* AutomationForm.Results.SurfaceParameters and its Parameters.                *)
(* Parameter values are floats in the source; the values used here are whole   *)
(* numbers. m_incomingAngle and m_albedoF0 are two more Parameters of the same *)
(* class as m_roughness and are not represented; no handler is subscribed to   *)
(* the ValueChanged and LockStateChanged events.                               *)

ParameterFields == {"m_roughness", "m_scatteringOrders"}

\* new Parameter( this, 0, 1.0f ) and new Parameter( this, 1, 4 )
RangeMin(P) == IF P = "m_scatteringOrders" THEN 1 ELSE 0
RangeMax(P) == IF P = "m_scatteringOrders" THEN 4 ELSE 1

\* The field initialisers and the constructor of Parameter
NewParameter(_rangeMin, _rangeMax) ==
    [m_rangeMin |-> _rangeMin, m_rangeMax |-> _rangeMax,
     m_min |-> 0, m_max |-> 1, m_stepsCount |-> 1,
     m_inclusiveMin |-> TRUE, m_inclusiveMax |-> FALSE]

\* The field initialisers and the constructor of SurfaceParameters
SurfaceParametersConstructed ==
    /\ m_locked = FALSE
    /\ parameters = [P \in ParameterFields |-> NewParameter(RangeMin(P), RangeMax(P))]

LockedMessage == "Parameter space settings are locked and can't be changed anymore!"
AlreadyLockedMessage == "Surface is already locked!"

MathMax(a, b) == IF a > b THEN a ELSE b
MathMin(a, b) == IF a < b THEN a ELSE b

\* The values the setters are called with
FloatValues == {0, 2}
StepsCounts == {0, 2}

\* What Parameter.Load parses from an element: the attributes Parameter.Save wrote
XmlElements ==
    {[Min |-> 2, Max |-> 3, Steps |-> 4, InclusiveMin |-> FALSE, InclusiveMax |-> TRUE]}

\* Each setter throws when the owner is locked, else stores the value (a value equal
\* to the field returns before the store, which changes nothing)

\* Parameter.Min set: the value is clamped to the range
SetMin(P, value) ==
    /\ returned' = [NoReturn EXCEPT !.op = "Min"]
    /\ IF m_locked
         THEN /\ thrown' = LockedMessage
              /\ UNCHANGED parameters
         ELSE /\ thrown' = ""
              /\ parameters' = [parameters EXCEPT ![P].m_min =
                      MathMax(parameters[P].m_rangeMin, MathMin(parameters[P].m_rangeMax, value))]
    /\ UNCHANGED <<m_locked, databaseVars, dictionaryVars>>

\* Parameter.Max set: the value is clamped to the range
SetMax(P, value) ==
    /\ returned' = [NoReturn EXCEPT !.op = "Max"]
    /\ IF m_locked
         THEN /\ thrown' = LockedMessage
              /\ UNCHANGED parameters
         ELSE /\ thrown' = ""
              /\ parameters' = [parameters EXCEPT ![P].m_max =
                      MathMax(parameters[P].m_rangeMin, MathMin(parameters[P].m_rangeMax, value))]
    /\ UNCHANGED <<m_locked, databaseVars, dictionaryVars>>

\* Parameter.StepsCount set: the value is at least 1
SetStepsCount(P, value) ==
    /\ returned' = [NoReturn EXCEPT !.op = "StepsCount"]
    /\ IF m_locked
         THEN /\ thrown' = LockedMessage
              /\ UNCHANGED parameters
         ELSE /\ thrown' = ""
              /\ parameters' = [parameters EXCEPT ![P].m_stepsCount = MathMax(1, value)]
    /\ UNCHANGED <<m_locked, databaseVars, dictionaryVars>>

\* Parameter.InclusiveMin set: the flag
SetInclusiveMin(P, value) ==
    /\ returned' = [NoReturn EXCEPT !.op = "InclusiveMin"]
    /\ IF m_locked
         THEN /\ thrown' = LockedMessage
              /\ UNCHANGED parameters
         ELSE /\ thrown' = ""
              /\ parameters' = [parameters EXCEPT ![P].m_inclusiveMin = value]
    /\ UNCHANGED <<m_locked, databaseVars, dictionaryVars>>

\* Parameter.InclusiveMax set: the flag
SetInclusiveMax(P, value) ==
    /\ returned' = [NoReturn EXCEPT !.op = "InclusiveMax"]
    /\ IF m_locked
         THEN /\ thrown' = LockedMessage
              /\ UNCHANGED parameters
         ELSE /\ thrown' = ""
              /\ parameters' = [parameters EXCEPT ![P].m_inclusiveMax = value]
    /\ UNCHANGED <<m_locked, databaseVars, dictionaryVars>>

\* Parameter.Load: the five fields are written, whatever m_owner.m_locked is
Load(P, _parent) ==
    /\ returned' = [NoReturn EXCEPT !.op = "Load"]
    /\ thrown' = ""
    /\ parameters' = [parameters EXCEPT ![P].m_min = _parent.Min,
                                        ![P].m_max = _parent.Max,
                                        ![P].m_stepsCount = _parent.Steps,
                                        ![P].m_inclusiveMin = _parent.InclusiveMin,
                                        ![P].m_inclusiveMax = _parent.InclusiveMax]
    /\ UNCHANGED <<m_locked, databaseVars, dictionaryVars>>

\* SurfaceParameters.Lock
Lock ==
    /\ returned' = [NoReturn EXCEPT !.op = "Lock"]
    /\ IF m_locked
         THEN /\ thrown' = AlreadyLockedMessage
              /\ UNCHANGED m_locked
         ELSE /\ thrown' = ""
              /\ m_locked' = TRUE
    /\ UNCHANGED <<parameters, databaseVars, dictionaryVars>>

NextSurface ==
    \/ \E P \in ParameterFields, value \in FloatValues : SetMin(P, value)
    \/ \E P \in ParameterFields, value \in FloatValues : SetMax(P, value)
    \/ \E P \in ParameterFields, value \in StepsCounts : SetStepsCount(P, value)
    \/ \E P \in ParameterFields, value \in BOOLEAN : SetInclusiveMin(P, value)
    \/ \E P \in ParameterFields, value \in BOOLEAN : SetInclusiveMax(P, value)
    \/ \E P \in ParameterFields, _parent \in XmlElements : Load(P, _parent)
    \/ Lock

-----------------------------------------------------------------------------
(* Dictionary<T> of Hashtable.inl, the version with U32 keys. The values of    *)
(* the nodes are not represented.                                             *)

MaxEntries == 3

\* The sizes the table is constructed with, and the keys of the calls
TableSizes == {1, 2}
Keys == {0, 1, 2, 3}

\* Dictionary( int _Size )
DictionaryConstructed(_Size) ==
    /\ m_Size = _Size
    /\ m_ppTable = [idx \in 0..(_Size - 1) |-> <<>>]
    /\ m_EntriesCount = 0

\* The chain without its first node of the key (the chain itself if there is none)
RECURSIVE Unlink(_, _)
Unlink(chain, _Key) ==
    IF chain = <<>> THEN <<>>
    ELSE IF Head(chain) = _Key THEN Tail(chain)
    ELSE <<Head(chain)>> \o Unlink(Tail(chain), _Key)

InChain(chain, _Key) == \E k \in DOMAIN chain : chain[k] = _Key

\* T& Add( U32 _Key ): a new node at the head of the chain of the key
Add(_Key) ==
    /\ m_EntriesCount < MaxEntries
    /\ m_ppTable' = [m_ppTable EXCEPT ![_Key % m_Size] = <<_Key>> \o @]
    /\ m_EntriesCount' = m_EntriesCount + 1
    /\ returned' = [NoReturn EXCEPT !.op = "Add", !.args = <<_Key>>]
    /\ thrown' = ""
    /\ UNCHANGED <<m_Size, databaseVars, surfaceVars>>

\* void Remove( U32 _Key )
DictionaryRemove(_Key) ==
    /\ IF InChain(m_ppTable[_Key % m_Size], _Key)
         THEN /\ m_ppTable' = [m_ppTable EXCEPT ![_Key % m_Size] = Unlink(@, _Key)]
              /\ m_EntriesCount' = m_EntriesCount - 1
         ELSE UNCHANGED <<m_ppTable, m_EntriesCount>>
    /\ returned' = [NoReturn EXCEPT !.op = "Remove", !.args = <<_Key>>]
    /\ thrown' = ""
    /\ UNCHANGED <<m_Size, databaseVars, surfaceVars>>

\* void Clear(): deletes the nodes and clears the heads
Clear ==
    /\ m_ppTable' = [idx \in DOMAIN m_ppTable |-> <<>>]
    /\ returned' = [NoReturn EXCEPT !.op = "Clear"]
    /\ thrown' = ""
    /\ UNCHANGED <<m_Size, m_EntriesCount, databaseVars, surfaceVars>>

\* T* Get( U32 _Key ) const: bool tells that the result is not NULL
Get(_Key) ==
    /\ returned' = [NoReturn EXCEPT !.op = "Get", !.args = <<_Key>>,
                        !.bool = /\ m_EntriesCount # 0
                                 /\ InChain(m_ppTable[_Key % m_Size], _Key)]
    /\ thrown' = ""
    /\ UNCHANGED <<dictionaryVars, databaseVars, surfaceVars>>

NextDictionary ==
    \/ \E _Key \in Keys : Add(_Key)
    \/ \E _Key \in Keys : DictionaryRemove(_Key)
    \/ Clear
    \/ \E _Key \in Keys : Get(_Key)

\* The two other objects as their constructors leave them
NoOtherObject == SurfaceParametersConstructed /\ DictionaryConstructed(1)

-----------------------------------------------------------------------------
(* State machine *)

\* The fields of a new CameraCalibrationDatabase
FieldInitialisers ==
    /\ m_DatabasePath = NullPath
    /\ m_ErrorLog = <<>>
    /\ m_CameraClibrations = <<>>
    /\ m_RootNode = Null
    /\ m_PreparedForISOSpeed = 0
    /\ m_PreparedForShutterSpeed = 0
    /\ m_PreparedForAperture = 0
    /\ m_InterpolatedCalibration = NullCalibration
    /\ nodes = <<>>
    /\ GridNodes = <<>>
    /\ PlacedNodes = <<>>
    /\ pc = "idle"
    /\ thrown = ""
    /\ returned = NoReturn
    /\ locals = NoLocals
    /\ preparedSinceLoad = FALSE

Init ==
    /\ disk \in FileLists
    /\ FieldInitialisers
    /\ NoOtherObject

\* The mutation: the clean up forgets m_InterpolatedCalibration
CleanUp_KeepsCalibration ==
    IF ~m_DatabasePath.IsNull
      THEN [m_CameraClibrations |-> <<>>, m_PreparedForISOSpeed |-> 0,
            m_PreparedForShutterSpeed |-> 0, m_PreparedForAperture |-> 0,
            m_InterpolatedCalibration |-> m_InterpolatedCalibration, m_RootNode |-> Null,
            m_ErrorLog |-> <<>>]
      ELSE [m_CameraClibrations |-> m_CameraClibrations,
            m_PreparedForISOSpeed |-> m_PreparedForISOSpeed,
            m_PreparedForShutterSpeed |-> m_PreparedForShutterSpeed,
            m_PreparedForAperture |-> m_PreparedForAperture,
            m_InterpolatedCalibration |-> m_InterpolatedCalibration,
            m_RootNode |-> m_RootNode, m_ErrorLog |-> m_ErrorLog]

\* The mutation: the clean up forgets m_RootNode
CleanUp_KeepsRoot ==
    IF ~m_DatabasePath.IsNull
      THEN [m_CameraClibrations |-> <<>>, m_PreparedForISOSpeed |-> 0,
            m_PreparedForShutterSpeed |-> 0, m_PreparedForAperture |-> 0,
            m_InterpolatedCalibration |-> NullCalibration, m_RootNode |-> m_RootNode,
            m_ErrorLog |-> <<>>]
      ELSE [m_CameraClibrations |-> m_CameraClibrations,
            m_PreparedForISOSpeed |-> m_PreparedForISOSpeed,
            m_PreparedForShutterSpeed |-> m_PreparedForShutterSpeed,
            m_PreparedForAperture |-> m_PreparedForAperture,
            m_InterpolatedCalibration |-> m_InterpolatedCalibration,
            m_RootNode |-> m_RootNode, m_ErrorLog |-> m_ErrorLog]

\* "Clean up existing database": the fields as they are after the first if of the setter
CleanUp ==
    IF ~m_DatabasePath.IsNull
      THEN [m_CameraClibrations |-> <<>>, m_PreparedForISOSpeed |-> 0,
            m_PreparedForShutterSpeed |-> 0, m_PreparedForAperture |-> 0,
            m_InterpolatedCalibration |-> NullCalibration, m_RootNode |-> Null,
            m_ErrorLog |-> <<>>]
      ELSE [m_CameraClibrations |-> m_CameraClibrations,
            m_PreparedForISOSpeed |-> m_PreparedForISOSpeed,
            m_PreparedForShutterSpeed |-> m_PreparedForShutterSpeed,
            m_PreparedForAperture |-> m_PreparedForAperture,
            m_InterpolatedCalibration |-> m_InterpolatedCalibration,
            m_RootNode |-> m_RootNode, m_ErrorLog |-> m_ErrorLog]

\* GridNodes no field refers to any more are garbage
LiveNodes(root) == IF root = Null THEN <<>> ELSE nodes

\* The part of the setter every call runs: clean up, m_DatabasePath = value
SetterPrologue(value) ==
    /\ UNCHANGED <<surfaceVars, dictionaryVars>>
    /\ pc = "idle"
    /\ UNCHANGED disk
    /\ m_DatabasePath' = value
    /\ m_PreparedForISOSpeed' = CleanUp.m_PreparedForISOSpeed
    /\ m_PreparedForShutterSpeed' = CleanUp.m_PreparedForShutterSpeed
    /\ m_PreparedForAperture' = CleanUp.m_PreparedForAperture
    /\ m_InterpolatedCalibration' = CleanUp.m_InterpolatedCalibration
    /\ returned' = [NoReturn EXCEPT !.op = "DatabasePath"]
    /\ locals' = NoLocals
    /\ preparedSinceLoad' = FALSE

\* DatabasePath = null: cleans up and returns
SetDatabasePathNull ==
    /\ SetterPrologue(NullPath)
    /\ m_CameraClibrations' = CleanUp.m_CameraClibrations
    /\ m_RootNode' = CleanUp.m_RootNode
    /\ m_ErrorLog' = CleanUp.m_ErrorLog
    /\ nodes' = LiveNodes(CleanUp.m_RootNode)
    /\ thrown' = ""
    /\ UNCHANGED <<GridNodes, PlacedNodes, pc>>

\* DatabasePath = a directory that does not exist: cleans up and throws
SetDatabasePathMissing ==
    /\ SetterPrologue(MissingPath)
    /\ m_CameraClibrations' = CleanUp.m_CameraClibrations
    /\ m_RootNode' = CleanUp.m_RootNode
    /\ m_ErrorLog' = CleanUp.m_ErrorLog
    /\ nodes' = LiveNodes(CleanUp.m_RootNode)
    /\ thrown' = PathMessage
    /\ UNCHANGED <<GridNodes, PlacedNodes, pc>>

\* DatabasePath = an existing directory (the calibration directory, or a directory
\* without any *.xml file): loads its files, selects the root and
\* enters the grid construction loop (or returns when there is nothing to build)
SetDatabasePath(files) ==
    LET st == LoadFiles(files, 1,
                  [ns |-> LiveNodes(CleanUp.m_RootNode), root |-> CleanUp.m_RootNode,
                   log |-> CleanUp.m_ErrorLog, ccs |-> <<>>, grid |-> <<>>])
        unplaced == Remove(st.grid, st.root)
    IN  /\ SetterPrologue(DirectoryInfo(files))
        /\ m_CameraClibrations' = st.ccs
        /\ m_RootNode' = st.root
        /\ nodes' = st.ns
        /\ thrown' = ""
        /\ IF Len(st.ccs) = 0
             THEN /\ m_ErrorLog' = Append(st.log, [File |-> 0, Message |-> EmptyMessage])
                  /\ UNCHANGED <<GridNodes, PlacedNodes, pc>>
             ELSE /\ m_ErrorLog' = st.log
                  /\ PlacedNodes' = (IF unplaced = <<>> THEN <<>> ELSE <<st.root>>)
                  /\ GridNodes' = unplaced
                  /\ pc' = (IF unplaced = <<>> THEN "idle" ELSE "build")

\* One iteration of while ( GridNodes.Count > 0 ), and the return that follows the last
BuildStep ==
    /\ UNCHANGED <<surfaceVars, dictionaryVars>>
    /\ pc = "build"
    /\ GridNodes # <<>>
    /\ LET pl == Placement(nodes, PlacedNodes, GridNodes)
           unplaced == Remove(GridNodes, pl.PairUnPlaced)
       IN  IF pl.PairPlaced = Null
             THEN \* PairPlaced.m_EV_ISOSpeed on a null reference
                  /\ thrown' = NullReferenceMessage
                  /\ pc' = "idle"
                  /\ GridNodes' = <<>>
                  /\ PlacedNodes' = <<>>
                  /\ UNCHANGED nodes
             ELSE
           IF SlotOccupied(Neighbor(nodes[pl.PairPlaced], pl.Axis), pl.LeftRight)
             THEN /\ thrown' = NeighborMessage
                  /\ pc' = "idle"
                  /\ GridNodes' = <<>>
                  /\ PlacedNodes' = <<>>
                  /\ UNCHANGED nodes
             ELSE /\ nodes' = StoreNeighbors(nodes, pl.PairPlaced, pl.PairUnPlaced,
                                             pl.Axis, pl.LeftRight)
                  /\ GridNodes' = unplaced
                  /\ PlacedNodes' = (IF unplaced = <<>> THEN <<>> ELSE PlacedNodes)
                  /\ pc' = (IF unplaced = <<>> THEN "idle" ELSE "build")
                  /\ UNCHANGED thrown
    /\ UNCHANGED <<disk, m_DatabasePath, m_ErrorLog, m_CameraClibrations, m_RootNode,
                   m_PreparedForISOSpeed, m_PreparedForShutterSpeed,
                   m_PreparedForAperture, m_InterpolatedCalibration,
                   returned, locals, preparedSinceLoad>>

Next ==
    \/ SetDatabasePathNull
    \/ SetDatabasePathMissing
    \/ \E files \in {disk, <<>>} : SetDatabasePath(files)
    \/ BuildStep

Spec == Init /\ [][Next]_vars

\* The same class on directories where a file may hold an ISO speed of 0
ShotIsoSpeeds == {0, 100, 200}

ShotFile ==
    { [m_ISOSpeed |-> i, m_ShutterSpeed |-> 1, m_Aperture |-> a,
       m_Reflectances |-> [k \in 1..REQUIRED_PROBES_COUNT |-> l]] :
        i \in ShotIsoSpeeds, a \in Apertures, l \in Luminances }

ShotFileLists == UNION { [1..n -> ShotFile] : n \in 0..MaxFiles }

InitShot ==
    /\ disk \in ShotFileLists
    /\ FieldInitialisers
    /\ NoOtherObject

SpecShot == InitShot /\ [][Next]_vars

\* Directories of samples that differ on one axis from (ISO 100, 1 s, f/1): the order
\* GetFiles returns them in is any order
OrderShots == {<<100, 1, 1>>, <<200, 1, 1>>, <<400, 1, 1>>, <<100, 2, 1>>, <<100, 1, 2>>}

OrderFile ==
    { [m_ISOSpeed |-> shot[1], m_ShutterSpeed |-> shot[2], m_Aperture |-> shot[3],
       m_Reflectances |-> [k \in 1..REQUIRED_PROBES_COUNT |-> l]] :
        shot \in OrderShots, l \in Luminances }

OrderFileLists == UNION { [1..n -> OrderFile] : n \in 0..MaxFiles }

InitOrder ==
    /\ disk \in OrderFileLists
    /\ FieldInitialisers
    /\ NoOtherObject

SpecOrder == InitOrder /\ [][Next]_vars

\* A SurfaceParameters on its own, from its construction
InitSurface ==
    /\ disk = <<>>
    /\ FieldInitialisers
    /\ NoOtherObject

SpecSurface == InitSurface /\ [][NextSurface]_vars

\* A Dictionary<T> on its own, from its construction with one of the sizes
InitDictionary ==
    /\ disk = <<>>
    /\ FieldInitialisers
    /\ SurfaceParametersConstructed
    /\ \E _Size \in TableSizes : DictionaryConstructed(_Size)

SpecDictionary == InitDictionary /\ [][NextDictionary]_vars

\* The whole grid construction loop: while ( GridNodes.Count > 0 ) up to its end or to
\* the exception that leaves it
RECURSIVE BuildGraph(_, _, _)
BuildGraph(ns, placed, unplaced) ==
    IF unplaced = <<>> THEN [ns |-> ns, thrown |-> ""]
    ELSE LET pl == Placement(ns, placed, unplaced)
         IN  IF pl.PairPlaced = Null
               THEN [ns |-> ns, thrown |-> NullReferenceMessage]
             ELSE IF SlotOccupied(Neighbor(ns[pl.PairPlaced], pl.Axis), pl.LeftRight)
               THEN [ns |-> ns, thrown |-> NeighborMessage]
             ELSE BuildGraph(StoreNeighbors(ns, pl.PairPlaced, pl.PairUnPlaced,
                                            pl.Axis, pl.LeftRight),
                             placed, Remove(unplaced, pl.PairUnPlaced))

\* What the per-file loop makes of a directory when it starts from an empty sample
\* list, no root, no node and an empty error log
FreshLoad(files) ==
    LoadFiles(files, 1, [ns |-> <<>>, root |-> Null, log |-> <<>>, ccs |-> <<>>, grid |-> <<>>])

\* The setter on a new database, from the first file to its return or its exception:
\* the root, the nodes and the exception it ends with
Construct(files) ==
    LET st == FreshLoad(files)
    IN  IF Len(st.ccs) = 0
          THEN [root |-> st.root, ns |-> st.ns, thrown |-> ""]
          ELSE LET built == BuildGraph(st.ns, <<st.root>>, Remove(st.grid, st.root))
               IN  [root |-> st.root, ns |-> built.ns, thrown |-> built.thrown]

-----------------------------------------------------------------------------
(* PrepareCalibrationFor, IsPreparedFor, Calibrate *)

MaxSamples == 2

ServiceLuminances == {1000, 2000}

ServiceFile ==
    { [m_ISOSpeed |-> i, m_ShutterSpeed |-> s, m_Aperture |-> 1,
       m_Reflectances |-> [k \in 1..REQUIRED_PROBES_COUNT |-> l]] :
        i \in IsoSpeeds, s \in ShutterSpeeds, l \in ServiceLuminances }

ServiceFileLists == UNION { [1..n -> ServiceFile] : n \in 0..MaxSamples }

\* The shot infos the methods are called with
TargetIsoSpeeds == {50, 150, 200, 400}
TargetShutterSpeeds == {1, 2}
TargetApertures == {1}
QueryTriples == {<<0, 0, 0>>, <<150, 1, 1>>, <<200, 2, 1>>}
RawLuminances == {500}

GridMessage == "Calibration grid hasn't been built"
PreparedMessage == "Calibration grid hasn't been prepared for calibration"

\* One of the three while loops of FindStartNode; the float argument is compared
\* with the node's EV as it is
RECURSIVE MoveAlong(_, _, _, _)
MoveAlong(ns, Current, axis, _Value) ==
    IF AxisEV(ns[Current], axis) <= 1000 * _Value /\ Neighbor(ns[Current], axis)[1] # Null
      THEN LET Next_ == Neighbor(ns[Current], axis)[1]
           IN  IF AxisEV(ns[Next_], axis) > 1000 * _Value
                 THEN Current
                 ELSE MoveAlong(ns, Next_, axis, _Value)
      ELSE Current

FindStartNode(ns, root, _ISOSpeed, _ShutterSpeed, _Aperture) ==
    LET AlongX == MoveAlong(ns, root, "X", _ISOSpeed)
        AlongY == MoveAlong(ns, AlongX, "Y", _ShutterSpeed)
    IN  MoveAlong(ns, AlongY, "Z", _Aperture)

\* m_Neighbor?[1] != null ? m_Neighbor?[1] : the node itself
NextOrSelf(ns, n, axis) ==
    IF Neighbor(ns[n], axis)[1] # Null THEN Neighbor(ns[n], axis)[1] ELSE n

\* The mutation: the quotient is not clamped to [0,1]
Interpolant_Unclamped(x, lo, hi) ==
    IF hi - lo >= 1
      THEN ((x - lo) * 1000) \div (hi - lo)
      ELSE (x - lo) * 1000

\* Math.Max( 0, Math.Min( 1, (x - lo) / Math.Max( 1e-6f, hi - lo ) ) ) in thousandths
Interpolant(x, lo, hi) ==
    IF hi - lo >= 1
      THEN LET t == ((x - lo) * 1000) \div (hi - lo)
           IN  IF t < 0 THEN 0 ELSE IF t > 1000 THEN 1000 ELSE t
      ELSE IF x - lo > 0 THEN 1000 ELSE 0

\* The mutation: the weight of a is 1 instead of 1 - t
Lerp_FullFirst(t, a, b) == (1000 * a + t * b) \div 1000

\* (1 - t) * a + t * b with t in thousandths
Lerp(t, a, b) == ((1000 - t) * a + t * b) \div 1000

Corners == {0, 1} \X {0, 1} \X {0, 1}

\* GridNode[,,] Grid = new GridNode[2,2,2] and its 8 assignments
BuildGrid(ns, StartNode) ==
    LET G100 == NextOrSelf(ns, StartNode, "X")
        G010 == NextOrSelf(ns, StartNode, "Y")
        G001 == NextOrSelf(ns, StartNode, "Z")
        G110 == NextOrSelf(ns, G100, "Y")
        G011 == NextOrSelf(ns, G010, "Z")
        G101 == NextOrSelf(ns, G001, "X")
        G111 == NextOrSelf(ns, G110, "Z")
    IN  (<<0,0,0>> :> StartNode) @@ (<<1,0,0>> :> G100) @@ (<<0,1,0>> :> G010)
          @@ (<<0,0,1>> :> G001) @@ (<<1,1,0>> :> G110) @@ (<<0,1,1>> :> G011)
          @@ (<<1,0,1>> :> G101) @@ (<<1,1,1>> :> G111)

\* float4 tX, in the order x, y, z, w
InterpolantsX(ns, Grid, EV_x) ==
    << Interpolant(EV_x, ns[Grid[<<0,0,0>>]].m_EV_ISOSpeed, ns[Grid[<<1,0,0>>]].m_EV_ISOSpeed),
       Interpolant(EV_x, ns[Grid[<<0,1,0>>]].m_EV_ISOSpeed, ns[Grid[<<1,1,0>>]].m_EV_ISOSpeed),
       Interpolant(EV_x, ns[Grid[<<0,0,1>>]].m_EV_ISOSpeed, ns[Grid[<<1,0,1>>]].m_EV_ISOSpeed),
       Interpolant(EV_x, ns[Grid[<<0,1,1>>]].m_EV_ISOSpeed, ns[Grid[<<1,1,1>>]].m_EV_ISOSpeed) >>

\* float4 ShutterSpeedsX (axis "Y") and float4 AperturesX (axis "Z")
ReduceX(ns, Grid, tX, axis) ==
    << Lerp(tX[1], AxisEV(ns[Grid[<<0,0,0>>]], axis), AxisEV(ns[Grid[<<1,0,0>>]], axis)),
       Lerp(tX[2], AxisEV(ns[Grid[<<0,1,0>>]], axis), AxisEV(ns[Grid[<<1,1,0>>]], axis)),
       Lerp(tX[3], AxisEV(ns[Grid[<<0,0,1>>]], axis), AxisEV(ns[Grid[<<1,0,1>>]], axis)),
       Lerp(tX[4], AxisEV(ns[Grid[<<0,1,1>>]], axis), AxisEV(ns[Grid[<<1,1,1>>]], axis)) >>

\* float2 tY
InterpolantsY(EV_y, ShutterSpeedsX) ==
    << Interpolant(EV_y, ShutterSpeedsX[1], ShutterSpeedsX[2]),
       Interpolant(EV_y, ShutterSpeedsX[3], ShutterSpeedsX[4]) >>

\* float2 AperturesY
ReduceY(tY, AperturesX) ==
    << Lerp(tY[1], AperturesX[1], AperturesX[2]),
       Lerp(tY[2], AperturesX[3], AperturesX[4]) >>

\* The weights of L100, L110, L101, L111 in the four reductions of the luminances on
\* X (those of L000, L010, L001, L011 are rX.x = 1 - tX.x): tX.x in the four of them
LuminanceWeightsX(tX) == <<tX[1], tX[1], tX[1], tX[1]>>

\* The mutation: no new CameraCalibration, the loop adds to the luminances it finds
InterpolatedLuminances_Accumulates(ns, Grid, tX, tY, tZ) ==
    [ ProbeIndex \in 1..REQUIRED_PROBES_COUNT |->
        LET L(c) == ns[Grid[c]].m_CameraCalibration.m_Reflectances[ProbeIndex]
            L00  == Lerp(tX[1], L(<<0,0,0>>), L(<<1,0,0>>))
            L10  == Lerp(tX[1], L(<<0,1,0>>), L(<<1,1,0>>))
            L01  == Lerp(tX[1], L(<<0,0,1>>), L(<<1,0,1>>))
            L11  == Lerp(tX[1], L(<<0,1,1>>), L(<<1,1,1>>))
            L0   == Lerp(tY[1], L00, L10)
            L1   == Lerp(tY[2], L01, L11)
        IN  Lerp(tZ, L0, L1)
              + (IF m_InterpolatedCalibration = NullCalibration
                   THEN 0 ELSE m_InterpolatedCalibration[ProbeIndex]) ]

\* The for loop over the probes: the luminances of the new m_InterpolatedCalibration.
\* The four reductions on X all use tX.x
InterpolatedLuminances(ns, Grid, tX, tY, tZ) ==
    [ ProbeIndex \in 1..REQUIRED_PROBES_COUNT |->
        LET L(c) == ns[Grid[c]].m_CameraCalibration.m_Reflectances[ProbeIndex]
            wX   == LuminanceWeightsX(tX)
            L00  == Lerp(wX[1], L(<<0,0,0>>), L(<<1,0,0>>))
            L10  == Lerp(wX[2], L(<<0,1,0>>), L(<<1,1,0>>))
            L01  == Lerp(wX[3], L(<<0,0,1>>), L(<<1,0,1>>))
            L11  == Lerp(wX[4], L(<<0,1,1>>), L(<<1,1,1>>))
            L0   == Lerp(tY[1], L00, L10)
            L1   == Lerp(tY[2], L01, L11)
        IN  Lerp(tZ, L0, L1) ]

\* The mutation: the three m_PreparedFor fields are assigned before the test of m_RootNode
ThrowGridNotBuilt_AfterRecording ==
    /\ thrown' = GridMessage
    /\ m_PreparedForISOSpeed' = returned'.args[1]
    /\ m_PreparedForShutterSpeed' = returned'.args[2]
    /\ m_PreparedForAperture' = returned'.args[3]
    /\ UNCHANGED <<m_InterpolatedCalibration, locals, preparedSinceLoad>>

\* if ( m_RootNode == null ) throw, the first statement of PrepareCalibrationFor
ThrowGridNotBuilt ==
    /\ thrown' = GridMessage
    /\ UNCHANGED <<m_PreparedForISOSpeed, m_PreparedForShutterSpeed,
                   m_PreparedForAperture, m_InterpolatedCalibration,
                   locals, preparedSinceLoad>>

\* Each \E over a one-element set declares one local of the method
PrepareCalibrationFor(_ISOSpeed, _ShutterSpeed, _Aperture) ==
    /\ UNCHANGED <<surfaceVars, dictionaryVars>>
    /\ pc = "idle"
    /\ returned' = [NoReturn EXCEPT !.op = "PrepareCalibrationFor",
                                    !.args = <<_ISOSpeed, _ShutterSpeed, _Aperture>>,
                                    !.again = /\ returned.op = "PrepareCalibrationFor"
                                              /\ returned.args
                                                   = <<_ISOSpeed, _ShutterSpeed, _Aperture>>
                                              /\ thrown = ""]
    /\ IF m_RootNode = Null
         THEN ThrowGridNotBuilt
         ELSE /\ m_PreparedForISOSpeed' = _ISOSpeed
              /\ m_PreparedForShutterSpeed' = _ShutterSpeed
              /\ m_PreparedForAperture' = _Aperture
              /\ \E EV_ \in {Convert2EV(_ISOSpeed, _ShutterSpeed, _Aperture)} :
                 \E StartNode \in {FindStartNode(nodes, m_RootNode,
                                                 _ISOSpeed, _ShutterSpeed, _Aperture)} :
                 \E Grid \in {BuildGrid(nodes, StartNode)} :
                 \E tX \in {InterpolantsX(nodes, Grid, EV_._EV_ISOSpeed)} :
                 \E ShutterSpeedsX \in {ReduceX(nodes, Grid, tX, "Y")} :
                 \E AperturesX \in {ReduceX(nodes, Grid, tX, "Z")} :
                 \E tY \in {InterpolantsY(EV_._EV_ShutterSpeed, ShutterSpeedsX)} :
                 \E AperturesY \in {ReduceY(tY, AperturesX)} :
                 \E tZ \in {Interpolant(EV_._EV_Aperture, AperturesY[1], AperturesY[2])} :
                    /\ locals' = [StartNode |-> StartNode, Grid |-> Grid,
                                  tX |-> tX, tY |-> tY, tZ |-> tZ]
                    /\ m_InterpolatedCalibration' =
                           InterpolatedLuminances(nodes, Grid, tX, tY, tZ)
              /\ preparedSinceLoad' = TRUE
              /\ thrown' = ""
    /\ UNCHANGED <<disk, m_DatabasePath, m_ErrorLog, m_CameraClibrations, m_RootNode,
                   nodes, GridNodes, PlacedNodes, pc>>

\* Math.Abs( a - b ) < 1e-6f on values that are whole numbers
Within(a, b) == 1000000 * Abs(a - b) < 1

IsPreparedFor(_ISOSpeed, _ShutterSpeed, _Aperture) ==
    /\ UNCHANGED <<surfaceVars, dictionaryVars>>
    /\ pc = "idle"
    /\ returned' = [NoReturn EXCEPT !.op = "IsPreparedFor",
                                    !.args = <<_ISOSpeed, _ShutterSpeed, _Aperture>>,
                                    !.bool = /\ Within(_ISOSpeed, m_PreparedForISOSpeed)
                                             /\ Within(_ShutterSpeed, m_PreparedForShutterSpeed)
                                             /\ Within(_Aperture, m_PreparedForAperture)]
    /\ thrown' = ""
    /\ UNCHANGED <<disk, m_DatabasePath, m_ErrorLog, m_CameraClibrations, m_RootNode,
                   m_PreparedForISOSpeed, m_PreparedForShutterSpeed, m_PreparedForAperture,
                   m_InterpolatedCalibration, nodes, GridNodes, PlacedNodes, pc,
                   locals, preparedSinceLoad>>

\* CameraCalibration.Calibrate( _Luminance ): the value the calibration curve with
\* these 6 control points gives for _Luminance, kept as the pair it is a function of
CalibratedLuminance(calibration, _Luminance) == <<calibration, _Luminance>>

\* The mutation: a successful Calibrate gives up the interpolated calibration
Calibrate_ConsumesCalibration(_Luminance) ==
    /\ UNCHANGED <<surfaceVars, dictionaryVars>>
    /\ pc = "idle"
    /\ IF m_RootNode = Null
         THEN /\ thrown' = GridMessage
              /\ returned' = [NoReturn EXCEPT !.op = "Calibrate", !.args = <<_Luminance>>]
              /\ UNCHANGED m_InterpolatedCalibration
         ELSE IF m_InterpolatedCalibration = NullCalibration
         THEN /\ thrown' = PreparedMessage
              /\ returned' = [NoReturn EXCEPT !.op = "Calibrate", !.args = <<_Luminance>>]
              /\ UNCHANGED m_InterpolatedCalibration
         ELSE /\ thrown' = ""
              /\ returned' = [NoReturn EXCEPT !.op = "Calibrate", !.args = <<_Luminance>>,
                                  !.value = CalibratedLuminance(m_InterpolatedCalibration,
                                                                _Luminance)]
              /\ m_InterpolatedCalibration' = NullCalibration
    /\ UNCHANGED <<disk, m_DatabasePath, m_ErrorLog, m_CameraClibrations, m_RootNode,
                   m_PreparedForISOSpeed, m_PreparedForShutterSpeed, m_PreparedForAperture,
                   nodes, GridNodes, PlacedNodes, pc, locals, preparedSinceLoad>>

Calibrate(_Luminance) ==
    /\ UNCHANGED <<surfaceVars, dictionaryVars>>
    /\ pc = "idle"
    /\ IF m_RootNode = Null
         THEN /\ thrown' = GridMessage
              /\ returned' = [NoReturn EXCEPT !.op = "Calibrate", !.args = <<_Luminance>>]
         ELSE IF m_InterpolatedCalibration = NullCalibration
         THEN /\ thrown' = PreparedMessage
              /\ returned' = [NoReturn EXCEPT !.op = "Calibrate", !.args = <<_Luminance>>]
         ELSE /\ thrown' = ""
              /\ returned' = [NoReturn EXCEPT !.op = "Calibrate", !.args = <<_Luminance>>,
                                  !.value = CalibratedLuminance(m_InterpolatedCalibration,
                                                                _Luminance)]
    /\ UNCHANGED <<disk, m_DatabasePath, m_ErrorLog, m_CameraClibrations, m_RootNode,
                   m_PreparedForISOSpeed, m_PreparedForShutterSpeed, m_PreparedForAperture,
                   m_InterpolatedCalibration, nodes, GridNodes, PlacedNodes, pc,
                   locals, preparedSinceLoad>>

InitService ==
    /\ disk \in ServiceFileLists
    /\ FieldInitialisers
    /\ NoOtherObject

NextService ==
    \/ SetDatabasePathNull
    \/ SetDatabasePathMissing
    \/ \E files \in {disk, <<>>} : SetDatabasePath(files)
    \/ BuildStep
    \/ \E i \in TargetIsoSpeeds, s \in TargetShutterSpeeds, a \in TargetApertures :
           PrepareCalibrationFor(i, s, a)
    \/ \E q \in QueryTriples : IsPreparedFor(q[1], q[2], q[3])
    \/ \E l \in RawLuminances : Calibrate(l)

SpecService == InitService /\ [][NextService]_vars

\* The same methods on directories whose samples are further apart: a 4 s shutter
\* speed has an EV (2) above the shutter speed 1 the methods are called with
WalkShots == {<<400, 1, 2>>, <<100, 2, 1>>, <<100, 4, 4>>}

WalkFile ==
    { [m_ISOSpeed |-> shot[1], m_ShutterSpeed |-> shot[2], m_Aperture |-> shot[3],
       m_Reflectances |-> [k \in 1..REQUIRED_PROBES_COUNT |-> l]] :
        shot \in WalkShots, l \in ServiceLuminances }

WalkFileLists == UNION { [1..n -> WalkFile] : n \in 0..MaxSamples }

InitWalk ==
    /\ disk \in WalkFileLists
    /\ FieldInitialisers
    /\ NoOtherObject

SpecWalk == InitWalk /\ [][NextService]_vars

-----------------------------------------------------------------------------
(* Properties of the class *)

IsValid == m_RootNode # Null
HasErrors == m_ErrorLog # <<>>

-----------------------------------------------------------------------------
(* Vocabulary of the claims *)

\* The setter ran on an existing directory and is no longer running
LoadFinished == pc = "idle" /\ ~m_DatabasePath.IsNull /\ m_DatabasePath.Exists

\* The setter ran on an existing directory and got past the per-file loop
FilesRead == ~m_DatabasePath.IsNull /\ m_DatabasePath.Exists

\* A valid sample: exactly 6 probes (every ISO, shutter and aperture drawn is positive)
SixProbes(f) == Len(f.m_Reflectances) = 6

SampleEV(f) == Convert2EV(f.m_ISOSpeed, f.m_ShutterSpeed, f.m_Aperture)
SummedEV(f) == SampleEV(f)._EV_ISOSpeed + SampleEV(f)._EV_ShutterSpeed + SampleEV(f)._EV_Aperture

ValidSamples(files) == { k \in DOMAIN files : SixProbes(files[k]) }

Slots == Axes \X {0, 1}
Slot(ns, n, sl) == Neighbor(ns[n], sl[1])[sl[2]]

\* The nodes reached from the nodes of S by following occupied neighbor slots
RECURSIVE Reach(_, _)
Reach(ns, S) ==
    LET T == S \cup ({ Slot(ns, n, sl) : n \in S, sl \in Slots } \ {Null})
    IN  IF T = S THEN S ELSE Reach(ns, T)

-----------------------------------------------------------------------------
(* C1 *)

\* The files are all valid samples, no two of them with the same shot parameters
DistinctValidSamples(files) ==
    /\ Len(files) >= 1
    /\ \A k \in DOMAIN files : SixProbes(files[k])
    /\ \A j \in DOMAIN files : \A k \in DOMAIN files :
           j # k => SampleEV(files[j]) # SampleEV(files[k])

\* C1 (as claimed): after a load of a non-empty set of valid samples (6 probes each,
\* no sample twice) the setter has raised no error and IsValid is true.
C1_ValidLoadSucceeds ==
    (LoadFinished /\ DistinctValidSamples(m_DatabasePath.Files))
        => (thrown = "" /\ IsValid)

-----------------------------------------------------------------------------
(* C2 *)

\* C2: after a successful load the root is a node of the graph and no valid sample
\* of the directory has a strictly smaller summed EV than the root.
C2_RootHasMinimumEV ==
    (LoadFinished /\ thrown = "" /\ IsValid)
        => /\ m_RootNode \in DOMAIN nodes
           /\ \A k \in ValidSamples(m_DatabasePath.Files) :
                  EV(nodes[m_RootNode]) <= SummedEV(m_DatabasePath.Files[k])

\* A successful load whose root is not the first sample read
C2_Witness ==
    /\ LoadFinished /\ thrown = "" /\ IsValid
    /\ Cardinality(ValidSamples(m_DatabasePath.Files)) >= 2
    /\ SixProbes(m_DatabasePath.Files[1])
    /\ EV(nodes[m_RootNode]) < SummedEV(m_DatabasePath.Files[1])

-----------------------------------------------------------------------------
(* C3 *)

\* C3: during graph construction a neighbor slot that holds a node holds the same
\* node after every step, on every node (the placed node p and the new node u);
\* a step that finds the slot to write on p occupied throws and leaves every slot
\* as it was.
C3_StepKeepsSlots ==
    pc = "build" =>
        /\ DOMAIN nodes' = DOMAIN nodes
        /\ \A n \in DOMAIN nodes : \A sl \in Slots :
               Slot(nodes, n, sl) # Null => Slot(nodes', n, sl) = Slot(nodes, n, sl)
        /\ LET pl == Placement(nodes, PlacedNodes, GridNodes)
           IN  Slot(nodes, pl.PairPlaced, <<pl.Axis, pl.LeftRight>>) # Null
                   => (thrown' = NeighborMessage /\ pc' = "idle" /\ nodes' = nodes)

C3_NoSlotOverwritten == [][C3_StepKeepsSlots]_vars

\* A construction aborted on an occupied slot, the slots written before still set
C3_Witness ==
    /\ pc = "idle" /\ thrown = NeighborMessage
    /\ \E n \in DOMAIN nodes : \E sl \in Slots : Slot(nodes, n, sl) # Null

-----------------------------------------------------------------------------
(* C4 *)

\* C4: in every state, for every axis and all nodes A, B: A's next slot (index 1)
\* holds B if and only if B's previous slot (index 0) holds A.
C4_LinksSymmetric ==
    \A a \in DOMAIN nodes : \A b \in DOMAIN nodes : \A axis \in Axes :
        (Neighbor(nodes[a], axis)[1] = b) <=> (Neighbor(nodes[b], axis)[0] = a)

\* A graph with links on two different axes
C4_Witness ==
    \E a \in DOMAIN nodes : \E x \in Axes : \E y \in Axes \ {x} :
        Neighbor(nodes[a], x)[1] # Null /\ Neighbor(nodes[a], y)[1] # Null

-----------------------------------------------------------------------------
(* C5 *)

\* C5: after a successful load every node is reached from the root through occupied
\* neighbor slots; during construction every node that is no longer unplaced is.
C5_Connected ==
    /\ (LoadFinished /\ thrown = "" /\ IsValid)
           => Reach(nodes, {m_RootNode}) = DOMAIN nodes
    /\ pc = "build"
           => Reach(nodes, {m_RootNode})
                = DOMAIN nodes \ { GridNodes[i] : i \in DOMAIN GridNodes }

\* A successful load of three valid samples
C5_Witness ==
    /\ LoadFinished /\ thrown = "" /\ IsValid
    /\ Cardinality(DOMAIN nodes) >= 3

-----------------------------------------------------------------------------
(* C6 *)

\* C6 (as claimed): slot index 1 means higher EV: whenever A's next slot (index 1)
\* on an axis holds B, B's EV on that axis is not lower than A's.
C6_NextSlotHoldsHigherEV ==
    \A a \in DOMAIN nodes : \A axis \in Axes :
        LET b == Neighbor(nodes[a], axis)[1]
        IN  b # Null => AxisEV(nodes[b], axis) >= AxisEV(nodes[a], axis)

-----------------------------------------------------------------------------
(* C7 *)

\* Two valid samples of the directory have the same EV coordinates
HasDuplicateSamples(files) ==
    \E j \in ValidSamples(files) : \E k \in ValidSamples(files) :
        j # k /\ SampleEV(files[j]) = SampleEV(files[k])

\* C7 (as claimed): a load of a directory with two valid samples of identical EV
\* coordinates ends with the "Grid node already has a neighbor!" error.
C7_DuplicatesAbort ==
    (LoadFinished /\ HasDuplicateSamples(m_DatabasePath.Files))
        => thrown = NeighborMessage

-----------------------------------------------------------------------------
(* C8 *)

\* C8 (as claimed): between calls, IsValid is true exactly when the last call of the
\* setter loaded a directory and built the graph without raising an error.
C8_IsValidIffGraphBuilt ==
    pc = "idle" =>
        (IsValid <=> (LoadFinished /\ thrown = ""
                        /\ ValidSamples(m_DatabasePath.Files) # {}))

-----------------------------------------------------------------------------
(* C9 *)

\* C9 (as claimed): a load that ends with zero valid samples raises an error to the
\* caller, builds no graph and leaves IsValid false.
C9_EmptyLoadRaises ==
    (LoadFinished /\ ValidSamples(m_DatabasePath.Files) = {})
        => (thrown # "" /\ nodes = <<>> /\ ~IsValid)

\* C9 (amended): a load that ends with zero valid samples returns without raising
\* an error; "Database is empty" is the last entry of the error log, no calibration
\* is kept, no graph is built and IsValid is false.
C9_EmptyLoadIsLogged ==
    (LoadFinished /\ ValidSamples(m_DatabasePath.Files) = {})
        => /\ thrown = ""
           /\ m_ErrorLog # <<>>
           /\ m_ErrorLog[Len(m_ErrorLog)] = [File |-> 0, Message |-> EmptyMessage]
           /\ m_CameraClibrations = <<>>
           /\ nodes = <<>>
           /\ ~IsValid

\* A load of a directory whose samples were all skipped
C9_Witness ==
    /\ LoadFinished
    /\ Len(m_DatabasePath.Files) >= 2
    /\ ValidSamples(m_DatabasePath.Files) = {}
    /\ Len(m_ErrorLog) = Len(m_DatabasePath.Files) + 1

-----------------------------------------------------------------------------
(* C10 *)

\* C10: a sample whose probe count is not 6 is skipped without aborting the load:
\* it has an entry in the error log, no node (so not the root) is made from it, the
\* valid samples of the directory are exactly the calibrations and the nodes kept,
\* in load order, and after a load without error all of them are in the graph.
C10_WrongProbeCountSkipped ==
    FilesRead =>
        LET files == m_DatabasePath.Files IN
        /\ \A k \in DOMAIN files :
               ~SixProbes(files[k])
                   => \E e \in DOMAIN m_ErrorLog :
                          m_ErrorLog[e] = [File |-> k, Message |-> ProbesMessage]
        /\ thrown # ProbesMessage
        /\ \A n \in DOMAIN nodes : SixProbes(nodes[n].m_CameraCalibration)
        /\ IsValid => m_RootNode \in DOMAIN nodes
        /\ m_CameraClibrations = SelectSeq(files, SixProbes)
        /\ [n \in DOMAIN nodes |-> nodes[n].m_CameraCalibration] = m_CameraClibrations
        /\ (pc = "idle" /\ thrown = "" /\ IsValid)
               => Reach(nodes, {m_RootNode}) = DOMAIN nodes

\* A load without error whose first sample has 5 probes and a summed EV below that
\* of every valid sample, followed by two valid samples
C10_Witness ==
    /\ LoadFinished /\ thrown = ""
    /\ Len(m_DatabasePath.Files) = 3
    /\ ValidSamples(m_DatabasePath.Files) = {2, 3}
    /\ \A k \in {2, 3} :
           SummedEV(m_DatabasePath.Files[1]) < SummedEV(m_DatabasePath.Files[k])
    /\ Cardinality(DOMAIN nodes) = 2

-----------------------------------------------------------------------------
(* C11 *)

\* C11 (as claimed): a sample with a non-positive ISO speed is skipped by the load:
\* it has an entry in the error log, and no node, so not the root, is made from it.
C11_NonPositiveShotRejected ==
    FilesRead =>
        LET files == m_DatabasePath.Files IN
        \A k \in DOMAIN files :
            files[k].m_ISOSpeed <= 0
                => /\ \E e \in DOMAIN m_ErrorLog : m_ErrorLog[e].File = k
                   /\ \A n \in DOMAIN nodes : nodes[n].m_CameraCalibration # files[k]
                   /\ m_RootNode # Null
                          => nodes[m_RootNode].m_CameraCalibration # files[k]

-----------------------------------------------------------------------------
(* C12 *)

\* A step that is a call of the named method
Calls(op) == pc = "idle" /\ returned'.op = op

\* C12: a call of PrepareCalibrationFor while no graph is built (m_RootNode is null)
\* throws the "grid hasn't been built" exception and leaves the last-prepared triple
\* and the interpolated calibration as they were before the call.
C12_NoGraphRecordsNothing ==
    [][ (Calls("PrepareCalibrationFor") /\ m_RootNode = Null)
          => /\ thrown' = GridMessage
             /\ UNCHANGED <<m_PreparedForISOSpeed, m_PreparedForShutterSpeed,
                            m_PreparedForAperture, m_InterpolatedCalibration>> ]_vars

\* PrepareCalibrationFor has thrown on a database whose load built nothing
C12_Witness ==
    /\ returned.op = "PrepareCalibrationFor"
    /\ thrown = GridMessage
    /\ m_RootNode = Null
    /\ LoadFinished

-----------------------------------------------------------------------------
(* C13 *)

\* C13: on a database with a graph, a call of Calibrate throws the "hasn't been
\* prepared" exception when no PrepareCalibrationFor has returned normally since the
\* setter loaded that graph, and a call of Calibrate that returns a value is always
\* preceded by such a PrepareCalibrationFor on the current graph.
C13_CalibrateNeedsPrepare ==
    returned.op = "Calibrate"
        => /\ (m_RootNode # Null /\ ~preparedSinceLoad) => thrown = PreparedMessage
           /\ thrown = "" => (m_RootNode # Null /\ preparedSinceLoad
                                /\ returned.value # NoReturn.value)

\* Calibrate has thrown on a loaded graph that no PrepareCalibrationFor has prepared
C13_Witness ==
    /\ returned.op = "Calibrate"
    /\ thrown = PreparedMessage
    /\ m_RootNode # Null
    /\ LoadFinished

-----------------------------------------------------------------------------
(* C14 *)

\* C14 (as claimed): IsPreparedFor returns false for every triple while no
\* PrepareCalibrationFor has returned normally since the construction or the last
\* load, so that a true answer means Calibrate will not throw "hasn't been prepared".
C14_UnpreparedIsFalse ==
    (returned.op = "IsPreparedFor" /\ ~preparedSinceLoad) => ~returned.bool

-----------------------------------------------------------------------------
(* C15 *)

\* C15: a call of PrepareCalibrationFor that directly follows a successful call with
\* the same three arguments returns normally, leaves the 6 interpolated luminances
\* (all that Calibrate reads) as the first call set them, and leaves the last-prepared
\* triple within 1e-6 of the arguments, so that IsPreparedFor is true for them.
C15_PrepareTwiceIsPrepareOnce ==
    [][ (Calls("PrepareCalibrationFor") /\ returned'.again)
          => /\ thrown' = ""
             /\ m_InterpolatedCalibration' = m_InterpolatedCalibration
             /\ Within(returned'.args[1], m_PreparedForISOSpeed')
             /\ Within(returned'.args[2], m_PreparedForShutterSpeed')
             /\ Within(returned'.args[3], m_PreparedForAperture') ]_vars

\* PrepareCalibrationFor has returned for the second time in a row with one triple,
\* on a graph of two nodes
C15_Witness ==
    /\ returned.op = "PrepareCalibrationFor"
    /\ returned.again
    /\ thrown = ""
    /\ Len(nodes) = 2

-----------------------------------------------------------------------------
(* C16 *)

\* The shot infos of a node, as PrepareCalibrationFor takes them
ShotOf(node) ==
    << node.m_CameraCalibration.m_ISOSpeed, node.m_CameraCalibration.m_ShutterSpeed,
       node.m_CameraCalibration.m_Aperture >>

\* The load is over and every node it made is linked into the graph under the root
GraphBuilt ==
    /\ LoadFinished
    /\ m_RootNode # Null
    /\ Reach(nodes, {m_RootNode}) = DOMAIN nodes

\* PrepareCalibrationFor has just returned normally on a built graph
PreparedOnGraph ==
    /\ GraphBuilt
    /\ returned.op = "PrepareCalibrationFor"
    /\ thrown = ""

\* C16 (as claimed): after PrepareCalibrationFor with the ISO speed, shutter speed and
\* aperture of a node N of the built graph (the only node with these shot infos), each
\* of the 6 interpolated luminances equals N's measured luminance for that probe.
C16_LatticePointExact ==
    PreparedOnGraph =>
        \A N \in DOMAIN nodes :
            (/\ ShotOf(nodes[N]) = returned.args
             /\ \A M \in DOMAIN nodes : ShotOf(nodes[M]) = ShotOf(nodes[N]) => M = N)
                => m_InterpolatedCalibration = nodes[N].m_CameraCalibration.m_Reflectances

-----------------------------------------------------------------------------
(* C17 *)

\* The EV of the target of the last call, on one axis
TargetEV(axis) ==
    LET ev == Convert2EV(returned.args[1], returned.args[2], returned.args[3])
    IN  CASE axis = "X" -> ev._EV_ISOSpeed
          [] axis = "Y" -> ev._EV_ShutterSpeed
          [] axis = "Z" -> ev._EV_Aperture

\* The EV of a node is the largest, the smallest, of the graph on the axis
IsLargest(n, axis) == \A m \in DOMAIN nodes : AxisEV(nodes[m], axis) <= AxisEV(nodes[n], axis)
IsSmallest(n, axis) == \A m \in DOMAIN nodes : AxisEV(nodes[n], axis) <= AxisEV(nodes[m], axis)

\* The interpolants PrepareCalibrationFor computed for the axis
InterpolantsOf(axis) ==
    CASE axis = "X" -> { locals.tX[k] : k \in 1..4 }
      [] axis = "Y" -> { locals.tY[k] : k \in 1..2 }
      [] axis = "Z" -> { locals.tZ }

\* C17 (as claimed): on a built graph, PrepareCalibrationFor with a target above the
\* largest (below the smallest) node EV on an axis returns normally, its cell holds a
\* node of the largest (smallest) EV on that axis, the boundary nearest to the
\* target, and every interpolant of that axis is 0 or 1.
C17_OutOfRangeUsesBoundaryCell ==
    (GraphBuilt /\ returned.op = "PrepareCalibrationFor") =>
        \A axis \in Axes :
            /\ (\A m \in DOMAIN nodes : AxisEV(nodes[m], axis) < TargetEV(axis))
                  => /\ thrown = ""
                     /\ \E c \in Corners : IsLargest(locals.Grid[c], axis)
                     /\ InterpolantsOf(axis) \subseteq {0, 1000}
            /\ (\A m \in DOMAIN nodes : TargetEV(axis) < AxisEV(nodes[m], axis))
                  => /\ thrown = ""
                     /\ \E c \in Corners : IsSmallest(locals.Grid[c], axis)
                     /\ InterpolantsOf(axis) \subseteq {0, 1000}

-----------------------------------------------------------------------------
(* C18 *)

\* C18: when the loaded directory holds exactly one valid sample, the root is the node
\* of that sample, and after any PrepareCalibrationFor all 8 corners of the cell are
\* that node and the 6 interpolated luminances are the sample's measured luminances.
C18_SingleSample ==
    (LoadFinished /\ Cardinality(ValidSamples(m_DatabasePath.Files)) = 1) =>
        LET sample == m_DatabasePath.Files[CHOOSE k \in ValidSamples(m_DatabasePath.Files) : TRUE]
        IN  /\ m_RootNode # Null
            /\ nodes[m_RootNode].m_CameraCalibration = sample
            /\ returned.op = "PrepareCalibrationFor"
                  => /\ thrown = ""
                     /\ \A c \in Corners : locals.Grid[c] = m_RootNode
                     /\ m_InterpolatedCalibration = sample.m_Reflectances

\* PrepareCalibrationFor has returned on a single-sample database with a target above
\* the sample on the ISO axis (tX.x = 1)
C18_Witness ==
    /\ LoadFinished
    /\ Cardinality(ValidSamples(m_DatabasePath.Files)) = 1
    /\ returned.op = "PrepareCalibrationFor"
    /\ thrown = ""
    /\ locals.tX[1] = 1000
    /\ m_InterpolatedCalibration = nodes[m_RootNode].m_CameraCalibration.m_Reflectances

-----------------------------------------------------------------------------
(* C19 *)

\* The node made from a sample with these shot infos
NodeOf(shot) == CHOOSE n \in DOMAIN nodes : ShotOf(nodes[n]) = shot

\* C19 (as claimed): with exactly the two samples A = (ISO 100, 1 s, f/1), EV (0,0,0),
\* and B = (ISO 200, 1 s, f/1), EV (1,0,0), PrepareCalibrationFor( 150, 1, 1 ) takes A
\* and B as the low and high X corners of its cell, computes tX.x = log2(1.5) (585
\* thousandths), and each interpolated luminance is (1 - tX.x) * L_A + tX.x * L_B,
\* strictly between L_A and L_B when these differ.
C19_TwoSamplesInterpolate ==
    (/\ LoadFinished
     /\ { ShotOf(nodes[n]) : n \in DOMAIN nodes } = { <<100, 1, 1>>, <<200, 1, 1>> }
     /\ Len(nodes) = 2
     /\ returned.op = "PrepareCalibrationFor"
     /\ returned.args = <<150, 1, 1>>)
        => LET A   == NodeOf(<<100, 1, 1>>)
               B   == NodeOf(<<200, 1, 1>>)
               L_A == nodes[A].m_CameraCalibration.m_Reflectances
               L_B == nodes[B].m_CameraCalibration.m_Reflectances
           IN  /\ thrown = ""
               /\ locals.Grid[<<0,0,0>>] = A
               /\ locals.Grid[<<1,0,0>>] = B
               /\ locals.tX[1] = Log2(150, 100)
               /\ \A k \in 1..REQUIRED_PROBES_COUNT :
                     /\ m_InterpolatedCalibration[k] = Lerp(locals.tX[1], L_A[k], L_B[k])
                     /\ L_A[k] < L_B[k] => (/\ L_A[k] < m_InterpolatedCalibration[k]
                                            /\ m_InterpolatedCalibration[k] < L_B[k])
                     /\ L_B[k] < L_A[k] => (/\ L_B[k] < m_InterpolatedCalibration[k]
                                            /\ m_InterpolatedCalibration[k] < L_A[k])

-----------------------------------------------------------------------------
(* C20 *)

\* C20: a call of PrepareCalibrationFor, IsPreparedFor or Calibrate leaves m_RootNode
\* and every GridNode (its calibration, its three EV and its six neighbor slots) as
\* they were; a call of IsPreparedFor or Calibrate also leaves the last-prepared
\* triple and the interpolated calibration as they were.
C20_GraphImmutable ==
    [][ /\ (Calls("PrepareCalibrationFor") \/ Calls("IsPreparedFor") \/ Calls("Calibrate"))
            => UNCHANGED <<m_RootNode, nodes>>
        /\ (Calls("IsPreparedFor") \/ Calls("Calibrate"))
            => UNCHANGED <<m_PreparedForISOSpeed, m_PreparedForShutterSpeed,
                           m_PreparedForAperture, m_InterpolatedCalibration>> ]_vars

\* Calibrate has returned a value on a graph of two linked nodes
C20_Witness ==
    /\ GraphBuilt
    /\ Len(nodes) = 2
    /\ returned.op = "Calibrate"
    /\ thrown = ""
    /\ returned.value # NoReturn.value

-----------------------------------------------------------------------------
(* C21 *)

Range(seq) == { seq[k] : k \in DOMAIN seq }

\* The nodes already in the graph during the construction: the root and every node
\* attached so far
PlacedSet == DOMAIN nodes \ Range(GridNodes)

\* This step of the construction attaches the unplaced node u to the placed node p
Attaches(p, u) ==
    /\ pc = "build"
    /\ u \in Range(GridNodes)
    /\ \E sl \in Slots : Slot(nodes, p, sl) = Null /\ Slot(nodes', p, sl) = u

\* C21 (as claimed): the pair (p, u) a placement step attaches has the smallest
\* squared EV distance of all pairs of a placed node and an unplaced node.
C21_AttachedPairIsClosest ==
    [][ \A p \in DOMAIN nodes : \A u \in DOMAIN nodes :
          Attaches(p, u)
            => \A p2 \in PlacedSet : \A u2 \in Range(GridNodes) :
                   SqDistance(nodes[p], nodes[u]) <= SqDistance(nodes[p2], nodes[u2]) ]_vars

-----------------------------------------------------------------------------
(* C22 *)

\* This step of the construction attaches u to p in a slot of p on the axis
LinkedOn(p, u, axis) ==
    /\ pc = "build"
    /\ u \in Range(GridNodes)
    /\ \E i \in {0, 1} : /\ Slot(nodes, p, <<axis, i>>) = Null
                         /\ Slot(nodes', p, <<axis, i>>) = u

AbsDelta(p, u, axis) == Abs(AxisEV(nodes[p], axis) - AxisEV(nodes[u], axis))

\* C22 (as claimed): the axis on which u is linked to p has the largest absolute EV
\* delta; X is the axis whenever |DeltaX| is at least as large as both other deltas,
\* and Y is the axis whenever |DeltaY| equals |DeltaZ| and exceeds |DeltaX|.
C22_TiesGoXThenYThenZ ==
    [][ \A p \in DOMAIN nodes : \A u \in DOMAIN nodes : \A axis \in Axes :
          LinkedOn(p, u, axis)
            => /\ \A other \in Axes : AbsDelta(p, u, other) <= AbsDelta(p, u, axis)
               /\ (/\ AbsDelta(p, u, "X") >= AbsDelta(p, u, "Y")
                   /\ AbsDelta(p, u, "X") >= AbsDelta(p, u, "Z")) => axis = "X"
               /\ (/\ AbsDelta(p, u, "Y") = AbsDelta(p, u, "Z")
                   /\ AbsDelta(p, u, "Y") > AbsDelta(p, u, "X")) => axis = "Y" ]_vars

\* C22 (amended): the axis on which u is linked to p has the largest absolute EV
\* delta, ties going to Z before Y before X: the axis is X only when |DeltaX| is
\* strictly larger than both other deltas, Y only when |DeltaY| is at least |DeltaX|
\* and strictly larger than |DeltaZ|, and Z in every other case.
C22_TiesGoZThenYThenX ==
    [][ \A p \in DOMAIN nodes : \A u \in DOMAIN nodes : \A axis \in Axes :
          LinkedOn(p, u, axis)
            => /\ \A other \in Axes : AbsDelta(p, u, other) <= AbsDelta(p, u, axis)
               /\ axis = (IF /\ AbsDelta(p, u, "X") > AbsDelta(p, u, "Y")
                             /\ AbsDelta(p, u, "X") > AbsDelta(p, u, "Z")
                            THEN "X"
                          ELSE IF /\ AbsDelta(p, u, "Y") >= AbsDelta(p, u, "X")
                                  /\ AbsDelta(p, u, "Y") > AbsDelta(p, u, "Z")
                            THEN "Y"
                          ELSE "Z") ]_vars

\* The graph holds a node linked on Z whose delta on X is as large as its delta on Z,
\* and a node linked on Y whose delta on X is as large as its delta on Y
C22_Witness ==
    /\ LoadFinished
    /\ m_RootNode # Null
    /\ \E u \in DOMAIN nodes : \E i \in {0, 1} :
          /\ Slot(nodes, m_RootNode, <<"Z", i>>) = u
          /\ AbsDelta(m_RootNode, u, "X") = AbsDelta(m_RootNode, u, "Z")
          /\ AbsDelta(m_RootNode, u, "Z") > 0
    /\ \E u \in DOMAIN nodes : \E i \in {0, 1} :
          /\ Slot(nodes, m_RootNode, <<"Y", i>>) = u
          /\ AbsDelta(m_RootNode, u, "X") = AbsDelta(m_RootNode, u, "Y")
          /\ AbsDelta(m_RootNode, u, "Y") > AbsDelta(m_RootNode, u, "Z")

-----------------------------------------------------------------------------
(* C23 *)

\* The walk the claim describes: follow the next (index 1) link on the axis while the
\* next node's EV on the axis is at most the EV of the target
RECURSIVE WalkInEV(_, _, _)
WalkInEV(Current, axis, target) ==
    LET Next_ == Neighbor(nodes[Current], axis)[1]
    IN  IF Next_ # Null /\ AxisEV(nodes[Next_], axis) <= target
          THEN WalkInEV(Next_, axis, target)
          ELSE Current

\* C23 (as claimed): the start node PrepareCalibrationFor works from is the node the
\* walk in EV space reaches: from the root along X with the EV of the ISO speed
\* argument, from there along Y with the EV of the shutter speed, then along Z with
\* the EV of the aperture.
C23_StartNodeFoundInEVSpace ==
    PreparedOnGraph =>
        locals.StartNode =
            WalkInEV(WalkInEV(WalkInEV(m_RootNode, "X", TargetEV("X")),
                              "Y", TargetEV("Y")),
                     "Z", TargetEV("Z"))

-----------------------------------------------------------------------------
(* C24 *)

\* The luminances the 8 corners of the cell measured for one probe
CornerLuminances(ProbeIndex) ==
    { nodes[locals.Grid[c]].m_CameraCalibration.m_Reflectances[ProbeIndex] : c \in Corners }

\* C24: after PrepareCalibrationFor returned normally, each of the 7 interpolants (4 on
\* X, 2 on Y, 1 on Z) lies in [0,1] and, for every probe, the interpolated luminance
\* lies between the smallest and the largest luminance of that probe over the 8
\* corners of the cell.
C24_InterpolationStaysInCell ==
    PreparedOnGraph =>
        /\ \A axis \in Axes : \A t \in InterpolantsOf(axis) : 0 <= t /\ t <= 1000
        /\ \A ProbeIndex \in 1..REQUIRED_PROBES_COUNT :
             /\ \E l \in CornerLuminances(ProbeIndex) :
                    l <= m_InterpolatedCalibration[ProbeIndex]
             /\ \E l \in CornerLuminances(ProbeIndex) :
                    m_InterpolatedCalibration[ProbeIndex] <= l

\* A cell over two samples of different luminances, prepared for a target that is
\* above the corners on one axis and not above them on another
C24_Witness ==
    /\ PreparedOnGraph
    /\ Cardinality(CornerLuminances(1)) = 2
    /\ 1000 \in InterpolantsOf("X")
    /\ 0 \in InterpolantsOf("Y")

-----------------------------------------------------------------------------
(* C25 *)

\* C25 (as claimed): the reduction of the luminances uses the weights of the EV
\* geometry: the X reduction of each of the 4 corner pairs uses the X interpolant of
\* that same pair (the Y and Z reductions use tY of their layer and tZ).
C25_LuminanceUsesPairInterpolant ==
    PreparedOnGraph =>
        \A k \in 1..4 : LuminanceWeightsX(locals.tX)[k] = locals.tX[k]

-----------------------------------------------------------------------------
(* C26 *)

\* C26: no state of a previous database survives a reload. Every call of the
\* DatabasePath setter leaves a zero prepared triple and no interpolated calibration,
\* and its sample list, root and error log are those of a load that started from an
\* empty sample list, no root and an empty error log: in particular a reload that
\* finds no valid sample leaves IsValid false even if the previous load had
\* succeeded. After a reload, Calibrate throws until PrepareCalibrationFor has been
\* called again.
C26_ReloadStartsClean ==
    [][ /\ Calls("DatabasePath")
          => /\ m_PreparedForISOSpeed' = 0
             /\ m_PreparedForShutterSpeed' = 0
             /\ m_PreparedForAperture' = 0
             /\ m_InterpolatedCalibration' = NullCalibration
             /\ IF m_DatabasePath'.IsNull \/ ~m_DatabasePath'.Exists
                  THEN /\ m_CameraClibrations' = <<>>
                       /\ m_RootNode' = Null
                       /\ m_ErrorLog' = <<>>
                  ELSE LET st == FreshLoad(m_DatabasePath'.Files)
                       IN  /\ m_CameraClibrations' = st.ccs
                           /\ m_RootNode' = st.root
                           /\ m_ErrorLog' \in {st.log,
                                  Append(st.log, [File |-> 0, Message |-> EmptyMessage])}
                           /\ ValidSamples(m_DatabasePath'.Files) = {} => ~IsValid'
        /\ (Calls("Calibrate") /\ ~preparedSinceLoad) => thrown' # "" ]_vars

\* The setter has just loaded a directory without any file, other than the calibration
\* directory: the database is invalid and its log holds the "empty" message only
C26_Witness ==
    /\ returned.op = "DatabasePath"
    /\ LoadFinished
    /\ disk # <<>>
    /\ m_DatabasePath.Files = <<>>
    /\ ~IsValid
    /\ HasErrors

-----------------------------------------------------------------------------
(* C27 *)

\* The nodes a walk along the index-1 links of an axis visits after it left the nodes of S
RECURSIVE Downstream(_, _)
Downstream(S, axis) ==
    LET T == S \cup ({ Neighbor(nodes[m], axis)[1] : m \in S } \ {Null})
    IN  IF T = S THEN S ELSE Downstream(T, axis)

AfterFirstStep(n, axis) ==
    IF Neighbor(nodes[n], axis)[1] = Null
      THEN {}
      ELSE Downstream({Neighbor(nodes[n], axis)[1]}, axis)

\* C27: the index-1 links never form a cycle along an axis: a walk of FindStartNode that
\* follows the index-1 links of one axis from any node never comes back to a node it
\* has visited, so each of its three loops ends and PrepareCalibrationFor terminates.
C27_NoCycleAlongAxis ==
    \A axis \in Axes : \A n \in DOMAIN nodes : n \notin AfterFirstStep(n, axis)

\* A finished graph in which a walk along an axis passes through the root: a node
\* leads to the root by its index-1 link and the root leads on to another node
C27_Witness ==
    /\ GraphBuilt
    /\ \E axis \in Axes : \E n \in DOMAIN nodes :
          /\ Neighbor(nodes[n], axis)[1] = m_RootNode
          /\ Neighbor(nodes[m_RootNode], axis)[1] \notin {Null, n}

-----------------------------------------------------------------------------
(* C28 *)

\* The files of the list in another order
Reordered(files) ==
    { [k \in DOMAIN files |-> files[pi[k]]] : pi \in Permutations(DOMAIN files) }

\* Exactly one valid sample has the minimal summed EV
UniqueRoot(files) ==
    \E k \in ValidSamples(files) :
        \A j \in ValidSamples(files) \ {k} : SummedEV(files[k]) < SummedEV(files[j])

\* The outcome of a construction, whatever the order the nodes were created in: the
\* sample of the root and, sample by sample, the sample each neighbor slot holds
SampleOf(ns, n) == IF n = Null THEN <<>> ELSE ns[n].m_CameraCalibration
Links(ns) == { <<SampleOf(ns, n), sl, SampleOf(ns, Slot(ns, n, sl))>> :
                   n \in DOMAIN ns, sl \in Slots }

SameOutcome(a, b) ==
    /\ (a.thrown = NeighborMessage) <=> (b.thrown = NeighborMessage)
    /\ a.thrown = "" =>
          /\ b.thrown = ""
          /\ SampleOf(a.ns, a.root) = SampleOf(b.ns, b.root)
          /\ Links(a.ns) = Links(b.ns)

\* C28: the construction does not depend on the order of the files when there is no
\* tie: if exactly one valid sample has the minimal summed EV, the load of the
\* directory ends as the load of the same files in any other order would: with the
\* same root and the same content of every neighbor slot, or with the "already has a
\* neighbor" exception in all orders. (The outcome is the same whether or not one pair
\* only attains the minimal squared distance at each placement step.)
C28_OrderIndependent ==
    (LoadFinished /\ UniqueRoot(m_DatabasePath.Files)) =>
        \A other \in Reordered(m_DatabasePath.Files) :
            SameOutcome([root |-> m_RootNode, ns |-> nodes, thrown |-> thrown],
                        Construct(other))

\* A graph of three samples built without exception from files whose order is not
\* the order of their distance to the root
C28_Witness ==
    /\ GraphBuilt
    /\ thrown = ""
    /\ UniqueRoot(m_DatabasePath.Files)
    /\ Len(nodes) = 3
    /\ m_RootNode = 3

-----------------------------------------------------------------------------
(* C29 *)

ParameterSetters == {"Min", "Max", "StepsCount", "InclusiveMin", "InclusiveMax"}

\* C29 (as claimed): once Lock has been called the surface stays locked (a second Lock
\* throws), every call of a Parameter setter throws, and the min, max, steps count
\* and inclusive flags of every Parameter stay as they are: the dimensions of the
\* results cannot change any more.
C29_LockedSettingsNeverChange ==
    [][ m_locked =>
          /\ m_locked'
          /\ UNCHANGED parameters
          /\ returned'.op = "Lock" => thrown' = AlreadyLockedMessage
          /\ returned'.op \in ParameterSetters => thrown' = LockedMessage ]_vars

-----------------------------------------------------------------------------
(* C30 *)

\* The number of nodes stored in the bucket chains
RECURSIVE NodesIn(_)
NodesIn(buckets) ==
    IF buckets = {} THEN 0
    ELSE LET idx == CHOOSE b \in buckets : TRUE
         IN  Len(m_ppTable[idx]) + NodesIn(buckets \ {idx})

StoredNodes == NodesIn(DOMAIN m_ppTable)

\* C30 (as claimed): after any sequence of Add, Remove and Clear, m_EntriesCount
\* equals the number of nodes stored in the bucket chains of the table; in particular
\* it is 0 after Clear.
C30_CountIsNumberOfNodes ==
    m_EntriesCount = StoredNodes

====
